---- MODULE Spec2Model ----
(***************************************************************************)
(* Model of colmap::Track and colmap::TrackElement                         *)
(* (src/colmap/scene/track.h).                                             *)
(*                                                                         *)
(* A Track owns one std::vector<TrackElement> (elements_).  The vector is  *)
(* modelled as a record [data, capacity]: data is the element sequence     *)
(* (1-based here, 0-based in the code), capacity the allocated capacity.   *)
(* Every method is an operator from the vector and the arguments to an     *)
(* outcome [status, elements_, ret]; the actions apply the operators to    *)
(* the Track objects of the state and record the call, the state before    *)
(* the call and the outcome.  A call is followed by Return, after which    *)
(* nothing of it is kept but the tracks, and the next call can be made.    *)
(*                                                                         *)
(* Two specifications:                                                     *)
(*   Spec      one Track object, constructed empty, under the whole API;   *)
(*   SpecPair  two Track objects with arbitrary contents, under the        *)
(*             operations that involve two tracks (SetElements from the    *)
(*             other track's Elements(), operator== and operator!=).       *)
(***************************************************************************)
EXTENDS Integers, Sequences, FiniteSets

VARIABLES elements_, call, old, result

vars == <<elements_, call, old, result>>

----------------------------------------------------------------------------
(* Bounds of the model *)

\* longest track in Spec
MaxLen == 3
\* longest sequence passed to AddElements / SetElements in Spec
MaxArgLen == 2
\* longest track in SpecPair
MaxPairLen == 2
\* largest argument of Reserve
MaxReserve == 4

\* the identifiers the inputs are drawn from; the code only ever compares
\* identifiers for equality, so two values per field give every case
\* (equal pair, one field differing, both fields differing)
ImageIds == {1, 2}
Point2DIdxs == {0, 1}

Max(a, b) == IF a >= b THEN a ELSE b

RECURSIVE SeqsOfLen(_, _)
SeqsOfLen(S, n) ==
  IF n = 0 THEN {<<>>}
  ELSE {Append(s, e) : s \in SeqsOfLen(S, n - 1), e \in S}

SeqsUpTo(S, n) == UNION {SeqsOfLen(S, k) : k \in 0..n}

----------------------------------------------------------------------------
(* TrackElement *)

TrackElement(image_id, point2D_idx) ==
  [image_id |-> image_id, point2D_idx |-> point2D_idx]

TrackElements == {TrackElement(i, p) : i \in ImageIds, p \in Point2DIdxs}

\* mutant: compares the image only
TrackElementEqImageOnly(a, b) == a.image_id = b.image_id

\* TrackElement::operator==
TrackElementEq(a, b) ==
  a.image_id = b.image_id /\ a.point2D_idx = b.point2D_idx

\* TrackElement::operator!=
TrackElementNe(a, b) == ~TrackElementEq(a, b)

----------------------------------------------------------------------------
(* Track *)

Vector(data, capacity) == [data |-> data, capacity |-> capacity]

Ok(v, r) == [status |-> "ok", elements_ |-> v, ret |-> r]

Throw(what, v) == [status |-> what, elements_ |-> v, ret |-> "none"]

\* the default-constructed member elements_
EmptyVector == Vector(<<>>, 0)

\* Track::Length
Length(v) == Ok(v, Len(v.data))

\* Track::Elements (const): the sequence itself
Elements(v) == v.data

\* mutant: appends the argument instead of replacing the content
SetElementsAppend(v, elements) ==
  Ok(Vector(v.data \o elements, Len(v.data) + Len(elements)), "none")

\* Track::SetElements: move-assigns the by-value argument, whose storage
\* (a copy of the caller's sequence) becomes the track's
SetElements(v, elements) == Ok(Vector(elements, Len(elements)), "none")

\* Track::Element (const): elements_.at(idx)
ElementConst(v, idx) ==
  IF idx < Len(v.data) THEN Ok(v, v.data[idx + 1])
  ELSE Throw("out_of_range", v)

\* Track::Element (mutable): elements_.at(idx), a reference the caller may
\* assign through; write is <<FALSE>> for a read and <<TRUE, e>> for "= e"
ElementMutable(v, idx, write) ==
  IF idx < Len(v.data)
  THEN IF write[1]
       THEN Ok([v EXCEPT !.data[idx + 1] = write[2]], write[2])
       ELSE Ok(v, v.data[idx + 1])
  ELSE Throw("out_of_range", v)

\* mutant: unchecked access, an index past the end is silently ignored
SetElementUnchecked(v, idx, element) ==
  IF idx < Len(v.data) THEN Ok([v EXCEPT !.data[idx + 1] = element], "none")
  ELSE Ok(v, "none")

\* Track::SetElement: elements_.at(idx) = element
SetElement(v, idx, element) ==
  IF idx < Len(v.data) THEN Ok([v EXCEPT !.data[idx + 1] = element], "none")
  ELSE Throw("out_of_range", v)

\* capacity after n elements are added to a vector of the given size
GrowCapacity(size, capacity, n) ==
  IF size + n <= capacity THEN capacity ELSE size + Max(size, n)

\* Track::AddElement(const TrackElement&): push_back
AddElement(v, element) ==
  Ok(Vector(Append(v.data, element),
            GrowCapacity(Len(v.data), v.capacity, 1)), "none")

\* mutant: the two identifiers are passed in the wrong order
AddElementPairSwapped(v, image_id, point2D_idx) ==
  Ok(Vector(Append(v.data, TrackElement(point2D_idx, image_id)),
            GrowCapacity(Len(v.data), v.capacity, 1)), "none")

\* Track::AddElement(image_t, point2D_t): emplace_back
AddElementPair(v, image_id, point2D_idx) ==
  Ok(Vector(Append(v.data, TrackElement(image_id, point2D_idx)),
            GrowCapacity(Len(v.data), v.capacity, 1)), "none")

\* mutant: inserts at begin()
AddElementsFront(v, elements) ==
  Ok(Vector(elements \o v.data,
            GrowCapacity(Len(v.data), v.capacity, Len(elements))), "none")

\* Track::AddElements: insert at end()
AddElements(v, elements) ==
  Ok(Vector(v.data \o elements,
            GrowCapacity(Len(v.data), v.capacity, Len(elements))), "none")

\* std::vector::erase(begin() + idx)
Erase(data, idx) == SubSeq(data, 1, idx) \o SubSeq(data, idx + 2, Len(data))

\* mutant: the check is <= instead of <, erasing at end() removes nothing
DeleteElementCheckLE(v, idx) ==
  IF idx <= Len(v.data) THEN Ok([v EXCEPT !.data = Erase(v.data, idx)], "none")
  ELSE Throw("check_failed", v)

\* mutant: removes by moving the last element into the gap
DeleteElementSwapPop(v, idx) ==
  IF idx < Len(v.data)
  THEN Ok([v EXCEPT !.data =
             SubSeq([v.data EXCEPT ![idx + 1] = v.data[Len(v.data)]],
                    1, Len(v.data) - 1)], "none")
  ELSE Throw("check_failed", v)

\* Track::DeleteElement(size_t): THROW_CHECK_LT(idx, size), then erase
DeleteElement(v, idx) ==
  IF idx < Len(v.data) THEN Ok([v EXCEPT !.data = Erase(v.data, idx)], "none")
  ELSE Throw("check_failed", v)

\* 0-based position of the first element with the given pair, or -1
FirstMatch(data, image_id, point2D_idx) ==
  LET M == {i \in 1..Len(data) : /\ data[i].image_id = image_id
                                 /\ data[i].point2D_idx = point2D_idx}
  IN IF M = {} THEN -1 ELSE (CHOOSE i \in M : \A j \in M : i <= j) - 1

\* mutant: removes every matching element
DeleteElementByValueAll(v, image_id, point2D_idx) ==
  LET Keep(e) == ~(e.image_id = image_id /\ e.point2D_idx = point2D_idx)
  IN Ok([v EXCEPT !.data = SelectSeq(v.data, Keep)], "none")

\* mutant: deletes by index whatever the search returned, so that a failed
\* search ends in the index check
DeleteElementByValueChecked(v, image_id, point2D_idx) ==
  LET idx == FirstMatch(v.data, image_id, point2D_idx)
  IN DeleteElement(v, IF idx < 0 THEN Len(v.data) ELSE idx)

\* Track::DeleteElement(image_t, point2D_t): declared in track.h, defined
\* outside it; removes the first matching element, no-op without a match
DeleteElementByValue(v, image_id, point2D_idx) ==
  LET idx == FirstMatch(v.data, image_id, point2D_idx)
  IN IF idx < 0 THEN Ok(v, "none")
     ELSE Ok([v EXCEPT !.data = Erase(v.data, idx)], "none")

\* mutant: resize instead of reserve, a smaller size truncates the track
ReserveAsResize(v, num_elements) ==
  IF num_elements < Len(v.data)
  THEN Ok(Vector(SubSeq(v.data, 1, num_elements), v.capacity), "none")
  ELSE Ok([v EXCEPT !.capacity = Max(v.capacity, num_elements)], "none")

\* Track::Reserve: elements_.reserve(num_elements)
Reserve(v, num_elements) ==
  Ok([v EXCEPT !.capacity = Max(v.capacity, num_elements)], "none")

\* Track::Compress: elements_.shrink_to_fit(), a non-binding request: the
\* capacity either drops to the size or stays
Compress(v) ==
  {Ok([v EXCEPT !.capacity = c], "none") : c \in {Len(v.data), v.capacity}}

\* std::vector operator== over TrackElement::operator==
VectorEq(a, b) ==
  /\ Len(a) = Len(b)
  /\ \A i \in 1..Len(a) : TrackElementEq(a[i], b[i])

\* Track::operator==
TrackEq(a, b) == VectorEq(a.data, b.data)

\* Track::operator!=
TrackNe(a, b) == ~TrackEq(a, b)

----------------------------------------------------------------------------
(* State machine *)

Tracks == DOMAIN elements_

Indices == 0..MaxLen

ArgSeqs == SeqsUpTo(TrackElements, MaxArgLen)

NoCall == [op |-> "none"]

NoResult == [status |-> "none", ret |-> "none"]

\* one call on track t, made when no call is pending: remember the state
\* before it, the call and its outcome
Do(t, c, out) ==
  /\ call = NoCall
  /\ old' = elements_
  /\ call' = c
  /\ result' = [status |-> out.status, ret |-> out.ret]
  /\ elements_' = [elements_ EXCEPT ![t] = out.elements_]

Init ==
  /\ elements_ = [t \in {"t1"} |-> EmptyVector]
  /\ old = elements_
  /\ call = [op |-> "Track", t |-> "t1"]
  /\ result = [status |-> "ok", ret |-> "none"]

CallLength ==
  \E t \in Tracks :
    Do(t, [op |-> "Length", t |-> t], Length(elements_[t]))

CallSetElements ==
  \E t \in Tracks, s \in ArgSeqs :
    Do(t, [op |-> "SetElements", t |-> t, els |-> s],
       SetElements(elements_[t], s))

CallElementConst ==
  \E t \in Tracks, i \in Indices :
    Do(t, [op |-> "ElementConst", t |-> t, idx |-> i],
       ElementConst(elements_[t], i))

CallElementMutable ==
  \E t \in Tracks, i \in Indices,
     w \in {<<FALSE>>} \cup {<<TRUE, e>> : e \in TrackElements} :
    Do(t, [op |-> "ElementMutable", t |-> t, idx |-> i, write |-> w],
       ElementMutable(elements_[t], i, w))

CallSetElement ==
  \E t \in Tracks, i \in Indices, e \in TrackElements :
    Do(t, [op |-> "SetElement", t |-> t, idx |-> i, el |-> e],
       SetElement(elements_[t], i, e))

CallAddElement ==
  \E t \in Tracks, e \in TrackElements :
    /\ Len(elements_[t].data) < MaxLen
    /\ Do(t, [op |-> "AddElement", t |-> t, el |-> e],
          AddElement(elements_[t], e))

CallAddElementPair ==
  \E t \in Tracks, i \in ImageIds, p \in Point2DIdxs :
    /\ Len(elements_[t].data) < MaxLen
    /\ Do(t, [op |-> "AddElementPair", t |-> t, el |-> TrackElement(i, p)],
          AddElementPair(elements_[t], i, p))

CallAddElements ==
  \E t \in Tracks, s \in ArgSeqs :
    /\ Len(elements_[t].data) + Len(s) <= MaxLen
    /\ Do(t, [op |-> "AddElements", t |-> t, els |-> s],
          AddElements(elements_[t], s))

CallDeleteElement ==
  \E t \in Tracks, i \in Indices :
    Do(t, [op |-> "DeleteElement", t |-> t, idx |-> i],
       DeleteElement(elements_[t], i))

CallDeleteElementByValue ==
  \E t \in Tracks, i \in ImageIds, p \in Point2DIdxs :
    Do(t, [op |-> "DeleteElementByValue", t |-> t, el |-> TrackElement(i, p)],
       DeleteElementByValue(elements_[t], i, p))

CallReserve ==
  \E t \in Tracks, n \in 0..MaxReserve :
    Do(t, [op |-> "Reserve", t |-> t, n |-> n], Reserve(elements_[t], n))

CallCompress ==
  \E t \in Tracks :
    \E out \in Compress(elements_[t]) :
      Do(t, [op |-> "Compress", t |-> t], out)

\* the call has returned and the caller is done with its outcome: nothing
\* of the call is left but the state of the tracks
Return ==
  /\ call # NoCall
  /\ call' = NoCall
  /\ result' = NoResult
  /\ old' = elements_
  /\ UNCHANGED elements_

Next ==
  \/ Return
  \/ CallLength
  \/ CallSetElements
  \/ CallElementConst
  \/ CallElementMutable
  \/ CallSetElement
  \/ CallAddElement
  \/ CallAddElementPair
  \/ CallAddElements
  \/ CallDeleteElement
  \/ CallDeleteElementByValue
  \/ CallReserve
  \/ CallCompress

Spec == Init /\ [][Next]_vars

----------------------------------------------------------------------------
(* Two tracks *)

PairVectors ==
  {Vector(s, Len(s)) : s \in SeqsUpTo(TrackElements, MaxPairLen)}

\* two Track objects, each holding any sequence SetElements can give it
InitPair ==
  /\ elements_ \in [{"t1", "t2"} -> PairVectors]
  /\ old = elements_
  /\ call = NoCall
  /\ result = NoResult

\* dst.SetElements(src.Elements())
CallSetElementsFrom ==
  \E dst \in Tracks, src \in Tracks :
    Do(dst, [op |-> "SetElementsFrom", t |-> dst, src |-> src],
       SetElements(elements_[dst], Elements(elements_[src])))

\* a == b
CallTrackEq ==
  \E a \in Tracks, b \in Tracks :
    Do(a, [op |-> "TrackEq", t |-> a, other |-> b],
       Ok(elements_[a], TrackEq(elements_[a], elements_[b])))

\* a != b
CallTrackNe ==
  \E a \in Tracks, b \in Tracks :
    Do(a, [op |-> "TrackNe", t |-> a, other |-> b],
       Ok(elements_[a], TrackNe(elements_[a], elements_[b])))

\* a call on two elements, which touches no track
DoElement(c, ret) ==
  /\ call = NoCall
  /\ old' = elements_
  /\ call' = c
  /\ result' = [status |-> "ok", ret |-> ret]
  /\ UNCHANGED elements_

\* x == y on two elements
CallTrackElementEq ==
  \E x \in TrackElements, y \in TrackElements :
    DoElement([op |-> "TrackElementEq", el |-> x, other |-> y],
              TrackElementEq(x, y))

\* x != y on two elements
CallTrackElementNe ==
  \E x \in TrackElements, y \in TrackElements :
    DoElement([op |-> "TrackElementNe", el |-> x, other |-> y],
              TrackElementNe(x, y))

NextPair ==
  \/ Return
  \/ CallSetElementsFrom
  \/ CallTrackEq
  \/ CallTrackNe
  \/ CallTrackElementEq
  \/ CallTrackElementNe

SpecPair == InitPair /\ [][NextPair]_vars

----------------------------------------------------------------------------
(* Properties.  In a state where a call has just been made, call is the    *)
(* call, old the tracks before it, elements_ the tracks after it and       *)
(* result its outcome.                                                     *)

\* the element sequence of the called track before and after the call
Before == old[call.t].data

After == elements_[call.t].data

\* C1: DeleteElement(idx) with idx >= Length(), on an empty track too,
\* raises the check's error and leaves the track as it was: same element
\* sequence, same Length().
C1_DeleteElementOutOfRange ==
  (call.op = "DeleteElement" /\ call.idx >= Len(Before)) =>
    /\ result.status = "check_failed"
    /\ After = Before
    /\ Length(elements_[call.t]).ret = Length(old[call.t]).ret
    /\ elements_ = old

C1_Witness ==
  /\ call.op = "DeleteElement"
  /\ Len(Before) > 0
  /\ call.idx = Len(Before)
  /\ result.status = "check_failed"

\* C2: Element(idx), const and mutable, and SetElement(idx, element) with
\* idx >= Length() raise out_of_range, return and write nothing, and leave
\* the element sequence unchanged.
C2_IndexedAccessChecked ==
  (/\ call.op \in {"ElementConst", "ElementMutable", "SetElement"}
   /\ call.idx >= Len(Before)) =>
    /\ result.status = "out_of_range"
    /\ result.ret = "none"
    /\ After = Before
    /\ elements_ = old

C2_Witness ==
  /\ call.op = "SetElement"
  /\ Len(Before) > 0
  /\ call.idx = Len(Before)
  /\ result.status = "out_of_range"
  /\ \A i \in 1..Len(Before) : Before[i] # call.el

\* 1-based positions of the elements of s with the pair of e
Matches(s, e) ==
  {i \in 1..Len(s) : s[i].image_id = e.image_id
                     /\ s[i].point2D_idx = e.point2D_idx}

\* C3: DeleteElement(image_id, point2D_idx) on a track with a match removes
\* exactly the first matching element: the result is that of DeleteElement
\* on the index of the first match, Length() drops by one, later duplicates
\* stay, and the remaining elements keep their order.
C3_DeleteByValueRemovesFirstMatch ==
  (call.op = "DeleteElementByValue" /\ Matches(Before, call.el) # {}) =>
    LET M == Matches(Before, call.el)
        k == CHOOSE i \in M : \A j \in M : i <= j
    IN /\ result.status = "ok"
       /\ Len(After) = Len(Before) - 1
       /\ \A j \in 1..(k - 1) : After[j] = Before[j]
       /\ \A j \in k..Len(After) : After[j] = Before[j + 1]
       /\ Cardinality(Matches(After, call.el)) = Cardinality(M) - 1
       /\ elements_[call.t] = DeleteElement(old[call.t], k - 1).elements_

C3_Witness ==
  /\ call.op = "DeleteElementByValue"
  /\ Len(Before) = 3
  /\ Matches(Before, call.el) = {1, 3}
  /\ After = <<Before[2], Before[3]>>

\* C4: DeleteElement(image_id, point2D_idx) on a track without a match, an
\* empty track included, raises nothing and changes nothing, whereas
\* DeleteElement(idx) on an invalid index of the same track fails.
C4_DeleteByValueNoMatchIsNoOp ==
  (call.op = "DeleteElementByValue" /\ Matches(Before, call.el) = {}) =>
    /\ result.status = "ok"
    /\ After = Before
    /\ elements_ = old
    /\ DeleteElement(old[call.t], Len(Before)).status = "check_failed"

C4_Witness ==
  /\ call.op = "DeleteElementByValue"
  /\ Len(Before) = 2
  /\ Matches(Before, call.el) = {}
  /\ Before[1].image_id = call.el.image_id
  /\ Before[2].point2D_idx = call.el.point2D_idx
  /\ result.status = "ok"

\* C5: DeleteElement(i) with i < n = Length() succeeds and leaves n-1
\* elements: those before position i unchanged, each one from position i on
\* equal to the old element one position later (0-based positions).
C5_DeleteElementClosesGap ==
  (call.op = "DeleteElement" /\ call.idx < Len(Before)) =>
    /\ result.status = "ok"
    /\ Len(After) = Len(Before) - 1
    /\ \A j \in 0..(Len(After) - 1) :
         After[j + 1] = IF j < call.idx THEN Before[j + 1] ELSE Before[j + 2]

C5_Witness ==
  /\ call.op = "DeleteElement"
  /\ Len(Before) = 3
  /\ call.idx = 1
  /\ Cardinality({Before[1], Before[2], Before[3]}) = 3
  /\ After = <<Before[1], Before[3]>>

\* AddElement called on each element of s in order
RECURSIVE AddEach(_, _)
AddEach(v, s) ==
  IF s = <<>> THEN v ELSE AddEach(AddElement(v, Head(s)).elements_, Tail(s))

\* C6: AddElements(S) leaves the old sequence followed by S, the sequence
\* that AddElement on each element of S in order leaves; on an empty track
\* Length() = |S| and Element(i) = S[i]; an empty S changes nothing.
C6_AddElementsAppendsInOrder ==
  (call.op = "AddElements") =>
    /\ result.status = "ok"
    /\ Len(After) = Len(Before) + Len(call.els)
    /\ \A i \in 1..Len(Before) : After[i] = Before[i]
    /\ \A i \in 1..Len(call.els) : After[Len(Before) + i] = call.els[i]
    /\ After = AddEach(old[call.t], call.els).data
    /\ (Before = <<>>) =>
         /\ Length(elements_[call.t]).ret = Len(call.els)
         /\ \A i \in 0..(Len(call.els) - 1) :
              ElementConst(elements_[call.t], i).ret = call.els[i + 1]
    /\ (call.els = <<>>) => elements_ = old

C6_Witness ==
  /\ call.op = "AddElements"
  /\ Len(Before) = 1
  /\ Len(call.els) = 2
  /\ call.els[1] # call.els[2]
  /\ Before[1] # call.els[1]
  /\ After = <<Before[1], call.els[1], call.els[2]>>

\* C7: both AddElement overloads always succeed and append exactly the
\* given pair at the end: Length() grows by one, the stored elements keep
\* position and value, a pair already stored is appended again, and the two
\* overloads give the same track for the same pair.
C7_AddElementAppendsOne ==
  (call.op \in {"AddElement", "AddElementPair"}) =>
    /\ result.status = "ok"
    /\ Len(After) = Len(Before) + 1
    /\ After[Len(After)] = call.el
    /\ \A i \in 1..Len(Before) : After[i] = Before[i]
    /\ AddElement(old[call.t], call.el) =
         AddElementPair(old[call.t], call.el.image_id, call.el.point2D_idx)

C7_Witness ==
  /\ call.op = "AddElementPair"
  /\ call.el.image_id # call.el.point2D_idx
  /\ Len(Before) = 2
  /\ Before[1] = call.el
  /\ Before[2] # call.el
  /\ After = <<call.el, Before[2], call.el>>

\* C8: Reserve(n) and Compress(), from any state and so in any number and
\* interleaving, leave Length() and the element sequence as they were, and
\* the track equal to an unmodified copy of itself.
C8_ReserveCompressKeepContent ==
  (call.op \in {"Reserve", "Compress"}) =>
    /\ result.status = "ok"
    /\ After = Before
    /\ Length(elements_[call.t]).ret = Length(old[call.t]).ret
    /\ TrackEq(elements_[call.t], old[call.t])
    /\ ~TrackNe(elements_[call.t], old[call.t])

C8_Witness ==
  /\ call.op = "Reserve"
  /\ Len(Before) = 2
  /\ old[call.t].capacity = 2
  /\ call.n > old[call.t].capacity
  /\ elements_[call.t].capacity = call.n
  /\ After = Before

\* C9: after t2.SetElements(t1.Elements()), whatever t2 held, t2 holds the
\* sequence of t1 and nothing else, t1 == t2, and t1 holds what it held.
C9_SetElementsRoundTrip ==
  (call.op = "SetElementsFrom") =>
    /\ result.status = "ok"
    /\ After = old[call.src].data
    /\ Len(After) = Len(old[call.src].data)
    /\ elements_[call.src].data = old[call.src].data
    /\ TrackEq(elements_[call.src], elements_[call.t])
    /\ ~TrackNe(elements_[call.src], elements_[call.t])

C9_Witness ==
  /\ call.op = "SetElementsFrom"
  /\ call.src # call.t
  /\ Len(Before) = 2
  /\ Len(old[call.src].data) = 1
  /\ Before[1] # old[call.src].data[1]
  /\ After = old[call.src].data

\* same length and the same pair at every position
SamePairs(a, b) ==
  /\ Len(a) = Len(b)
  /\ \A i \in 1..Len(a) : /\ a[i].image_id = b[i].image_id
                          /\ a[i].point2D_idx = b[i].point2D_idx

\* C10: two tracks are == exactly when they have the same length and the
\* same pair at every position; == is reflexive, symmetric, transitive and
\* sensitive to order; != is the negation of ==, for tracks and elements.
C10_EqualityIsSequenceEquality ==
  /\ (call.op \in {"TrackEq", "TrackNe"}) =>
       LET x == elements_[call.t]
           y == elements_[call.other]
       IN /\ result.status = "ok"
          /\ TrackEq(x, y) <=> SamePairs(x.data, y.data)
          /\ TrackEq(x, x)
          /\ TrackEq(x, y) <=> TrackEq(y, x)
          /\ \A z \in PairVectors :
               (TrackEq(x, y) /\ TrackEq(y, z)) => TrackEq(x, z)
          /\ TrackNe(x, y) <=> ~TrackEq(x, y)
          /\ (/\ Len(x.data) = 2
              /\ x.data[1] # x.data[2]
              /\ y.data = <<x.data[2], x.data[1]>>) => ~TrackEq(x, y)
          /\ result.ret = IF call.op = "TrackEq" THEN SamePairs(x.data, y.data)
                          ELSE ~SamePairs(x.data, y.data)
  /\ (call.op \in {"TrackElementEq", "TrackElementNe"}) =>
       /\ TrackElementEq(call.el, call.other) <=> (call.el = call.other)
       /\ TrackElementNe(call.el, call.other) <=>
            ~TrackElementEq(call.el, call.other)
       /\ result.ret = IF call.op = "TrackElementEq" THEN call.el = call.other
                       ELSE call.el # call.other

C10_Witness ==
  /\ call.op = "TrackEq"
  /\ call.t # call.other
  /\ Len(elements_[call.t].data) = 2
  /\ elements_[call.t].data[1] # elements_[call.t].data[2]
  /\ elements_[call.other].data =
       <<elements_[call.t].data[2], elements_[call.t].data[1]>>
  /\ result.ret = FALSE

====
